---- MODULE Spec2Model ----
(***************************************************************************)
(* A model of a3_files/app.py: the MarioApp gameplay orchestration layer.  *)
(* The state is the MarioApp object (world, player, builder, death flag,   *)
(* view offset), the host event loop (pending step callbacks, open popup   *)
(* windows) and a few history variables that record what the last handler  *)
(* did.  Every handler of the event loop is one action.                    *)
(***************************************************************************)
EXTENDS Integers, Sequences, FiniteSets, TLC

(* ------------------------------------------------------------------ *)
(* Program constants                                                  *)
(* ------------------------------------------------------------------ *)
BLOCK_SIZE == 16

MAX_WINDOW_WIDTH == 1080

MaxHealth == 5

JumpSpeed == 150

BLOCKS == [s \in {"#", "%", "?", "$", "^"} |->
             CASE s = "#" -> "brick"
               [] s = "%" -> "brick_base"
               [] s = "?" -> "mystery_empty"
               [] s = "$" -> "mystery_coin"
               [] s = "^" -> "cube"]

ITEMS == [s \in {"C"} |-> "coin"]

MOBS == [s \in {"&"} |-> "cloud"]

(* ------------------------------------------------------------------ *)
(* Bounds of the model                                                *)
(* ------------------------------------------------------------------ *)
\* death popups that may be open at once
MaxDeathPopups == 2

\* level-select popups that may be open at once
MaxLevelPopups == 1

\* begin-contact events the physics service reports within one tick
MaxContacts == 2

\* fireballs a cloud has in flight at once
MaxFireballs == 1

(* ------------------------------------------------------------------ *)
(* Level files: the placement feed (symbol, grid x, grid y)           *)
(* ------------------------------------------------------------------ *)
LevelNames == {"level1.txt", "level2.txt"}

\* The level files of the game: a wide first level and a narrow second one.
GameFiles ==
    [level \in LevelNames |->
       IF level = "level1.txt"
       THEN << <<"#", 0, 3>>, <<"C", 1, 2>>, <<"&", 2, 0>>, <<"@", 79, 3>> >>
       ELSE << <<"#", 0, 3>>, <<"$", 1, 1>>, <<"@", 5, 3>> >>]

VARIABLES
    files,          \* the level files on disk: level name -> placements
    app,            \* "new" before MarioApp(root), "running", "exited" after master.destroy()
    builders,       \* self._builder: the registered <<symbol, factory>> pairs
    world,          \* self._world: [ents, alive, used, added, handlers, width]
    level_holder,   \* self._level_holder
    death_action,   \* self._death_action
    player,         \* self._player: [health, score, velocity, x] (x is get_position()[0])
    win_width,      \* self._master.winfo_width()
    view_offset,    \* the offset of self._view
    pending,        \* step callbacks scheduled with master.after
    death_popups,   \* open "You dead" windows
    level_popups,   \* open "Level select" windows
    raised,         \* history: the last handler ended with an exception
    on_death_calls, \* history: on_death invocations since the last level load
    reset_snap,     \* history: <<health, death flag>> at the end of the last reset_world
    tick_in_prompt, \* history: the last handler was a step begun with a "You dead" window open
    tick_log        \* history: the calls of the last step, in the order they were made

vars == <<files, app, builders, world, level_holder, death_action, player,
          win_width, view_offset, pending,
          death_popups, level_popups, raised, on_death_calls,
          reset_snap, tick_in_prompt, tick_log>>

(* ------------------------------------------------------------------ *)
(* Entities and the factories of the Entity Registry                  *)
(* ------------------------------------------------------------------ *)
\* An entity: its category, class and id, the position it was added at, the
\* factory that built it, its size when one was given, (MysteryBlock) its drop
\* and drop range, and n, its index among the entities of its world.
Thing(cat, cls, id, x, y, by, drop, lo, hi) ==
    [cat |-> cat, cls |-> cls, id |-> id, x |-> x, y |-> y, by |-> by,
     drop |-> drop, lo |-> lo, hi |-> hi, w |-> 0, h |-> 0, n |-> 0]

\* A world: the entities added to it so far (ents, in the order added), the
\* indices of those still in it (alive), the indices of the MysteryBlocks that
\* are used up (used), the entities a callback has added during the running
\* step (added), its collision-handler table and its pixel width.
EmptyWorld(width) ==
    [ents |-> <<>>, alive |-> {}, used |-> {}, added |-> <<>>, handlers |-> {},
     width |-> width]

\* World.add_block / add_item / add_mob / add_thing / add_player
add_thing(w, e) ==
    [w EXCEPT !.ents = Append(@, [e EXCEPT !.n = Len(w.ents) + 1]),
              !.alive = @ \cup {Len(w.ents) + 1}]

\* A create_block that makes a plain Block of the mapped id for every symbol.
create_block_plain(w, sym, x, y) ==
    add_thing(w, Thing("block", "Block", BLOCKS[sym],
                       x * BLOCK_SIZE, y * BLOCK_SIZE, "create_block", "none", 0, 0))

create_block(w, sym, x, y) ==
    LET block_id == BLOCKS[sym] IN
    IF block_id = "mystery_empty"
    THEN add_thing(w, Thing("block", "MysteryBlock", "mystery_empty",
                            x * BLOCK_SIZE, y * BLOCK_SIZE, "create_block", "none", 0, 0))
    ELSE IF block_id = "mystery_coin"
    THEN add_thing(w, Thing("block", "MysteryBlock", "mystery_empty",
                            x * BLOCK_SIZE, y * BLOCK_SIZE, "create_block", "coin", 3, 6))
    ELSE add_thing(w, Thing("block", "Block", block_id,
                            x * BLOCK_SIZE, y * BLOCK_SIZE, "create_block", "none", 0, 0))

create_item(w, sym, x, y) ==
    LET item_id == ITEMS[sym] IN
    IF item_id = "coin"
    THEN add_thing(w, Thing("item", "Coin", "coin",
                            x * BLOCK_SIZE, y * BLOCK_SIZE, "create_item", "none", 0, 0))
    ELSE add_thing(w, Thing("item", "DroppedItem", item_id,
                            x * BLOCK_SIZE, y * BLOCK_SIZE, "create_item", "none", 0, 0))

create_mob(w, sym, x, y) ==
    LET mob_id == MOBS[sym] IN
    IF mob_id = "cloud"
    THEN add_thing(w, Thing("mob", "CloudMob", "cloud",
                            x * BLOCK_SIZE, y * BLOCK_SIZE, "create_mob", "none", 0, 0))
    ELSE IF mob_id = "fireball"
    THEN add_thing(w, Thing("mob", "Fireball", "fireball",
                            x * BLOCK_SIZE, y * BLOCK_SIZE, "create_mob", "none", 0, 0))
    ELSE add_thing(w, Thing("mob", "Mob", mob_id,
                            x * BLOCK_SIZE, y * BLOCK_SIZE, "create_mob", "none", 0, 0))

\* A create_unknown that places the entity at the grid coordinates themselves.
create_unknown_unscaled(w, sym, x, y) ==
    add_thing(w, [Thing("thing", "Entity", "none", x, y,
                        "create_unknown", "none", 0, 0)
                    EXCEPT !.w = BLOCK_SIZE, !.h = BLOCK_SIZE])

create_unknown(w, sym, x, y) ==
    add_thing(w, [Thing("thing", "Entity", "none", x * BLOCK_SIZE, y * BLOCK_SIZE,
                        "create_unknown", "none", 0, 0)
                    EXCEPT !.w = BLOCK_SIZE, !.h = BLOCK_SIZE])

\* The long-lived Player instance, as world.add_player(player, x, y) places it.
PlayerThing(x, y) ==
    Thing("player", "Player", "player", x, y, "add_player", "none", 0, 0)

add_player(w, x, y) == add_thing(w, PlayerThing(x, y))

\* WorldBuilder.register_builders(keys, factory), as __init__ calls it.
register_builders(bs, keys, factory) ==
    {b \in bs : b[1] \notin keys} \cup {<<k, factory>> : k \in keys}

ConstructorBuilders ==
    register_builders(
        register_builders(
            register_builders({}, DOMAIN BLOCKS, "create_block"),
            DOMAIN ITEMS, "create_item"),
        DOMAIN MOBS, "create_mob")

\* WorldBuilder.clear(): the registry is emptied after a build.
builder_clear(bs) == {}

\* The registry's build of one placement: the registered factory, or the fallback.
Build(bs, w, p) ==
    LET sym == p[1]
        reg == {b \in bs : b[1] = sym}
        factory == IF reg = {} THEN "create_unknown" ELSE (CHOOSE b \in reg : TRUE)[2]
    IN CASE factory = "create_block" -> create_block(w, sym, p[2], p[3])
         [] factory = "create_item"  -> create_item(w, sym, p[2], p[3])
         [] factory = "create_mob"   -> create_mob(w, sym, p[2], p[3])
         [] OTHER                    -> create_unknown(w, sym, p[2], p[3])

\* The pixel width of a level: its grid columns times the block size.
RECURSIVE MaxColumn(_, _)
MaxColumn(file, i) ==
    IF i = 0 THEN 0
    ELSE LET rest == MaxColumn(file, i - 1)
         IN IF file[i][2] + 1 > rest THEN file[i][2] + 1 ELSE rest

LevelPixelWidth(file) == MaxColumn(file, Len(file)) * BLOCK_SIZE

\* load_world(builder, level): a new world, one build per placement of the file.
RECURSIVE BuildAll(_, _, _, _)
BuildAll(bs, w, file, i) ==
    IF i = 0 THEN w ELSE Build(bs, BuildAll(bs, w, file, i - 1), file[i])

load_world(bs, file) ==
    BuildAll(bs, EmptyWorld(LevelPixelWidth(file)), file, Len(file))

\* MarioApp._setup_collision_handlers: the six registered category pairs.
CollisionPairs ==
    {<<"player", "item">>, <<"player", "block">>, <<"player", "mob">>,
     <<"mob", "block">>, <<"mob", "mob">>, <<"mob", "item">>}

\* A setup that leaves the mob-item pair without a handler.
_setup_collision_handlers_five(w) ==
    [w EXCEPT !.handlers = @ \cup (CollisionPairs \ {<<"mob", "item">>})]

_setup_collision_handlers(w) == [w EXCEPT !.handlers = @ \cup CollisionPairs]

\* Player.change_health: health moves by change and stays within [0, max_health].
change_health(h, change) ==
    IF h + change < 0 THEN 0
    ELSE IF h + change > MaxHealth THEN MaxHealth
    ELSE h + change

(* ------------------------------------------------------------------ *)
(* The MarioApp object as a record, and its methods as operators      *)
(* ------------------------------------------------------------------ *)
Cur ==
    [files |-> files, app |-> app, builders |-> builders, world |-> world,
     level_holder |-> level_holder, death_action |-> death_action,
     player |-> player, win_width |-> win_width,
     view_offset |-> view_offset, pending |-> pending,
     death_popups |-> death_popups, level_popups |-> level_popups,
     raised |-> raised, on_death_calls |-> on_death_calls,
     reset_snap |-> reset_snap, tick_in_prompt |-> tick_in_prompt,
     tick_log |-> tick_log]

Assign(t) ==
    /\ files' = t.files
    /\ app' = t.app
    /\ builders' = t.builders
    /\ world' = t.world
    /\ level_holder' = t.level_holder
    /\ death_action' = t.death_action
    /\ player' = t.player
    /\ win_width' = t.win_width
    /\ view_offset' = t.view_offset
    /\ pending' = t.pending
    /\ death_popups' = t.death_popups
    /\ level_popups' = t.level_popups
    /\ raised' = t.raised
    /\ on_death_calls' = t.on_death_calls
    /\ reset_snap' = t.reset_snap
    /\ tick_in_prompt' = t.tick_in_prompt
    /\ tick_log' = t.tick_log

\* The history variables at the end of a level load.
loaded_snap(r) ==
    [r EXCEPT !.on_death_calls = 0,
              !.reset_snap = <<r.player.health, r.death_action>>]

\* A reset_world that does not clear the death flag.
reset_world_keeps_flag(s, new_level, loadable) ==
    IF ~loadable THEN [s EXCEPT !.raised = TRUE]
    ELSE
    LET loaded == load_world(s.builders, s.files[new_level])
        placed == add_player(loaded, BLOCK_SIZE, BLOCK_SIZE)
    IN loaded_snap(
       [s EXCEPT !.world = _setup_collision_handlers(placed),
                 !.player.x = BLOCK_SIZE,
                 !.builders = builder_clear(s.builders),
                 !.level_holder = new_level,
                 !.player.health = change_health(@, MaxHealth)])

\* A reset_world that remembers the level name before it loads the level.
reset_world_names_first(s, new_level, loadable) ==
    IF ~loadable THEN [s EXCEPT !.level_holder = new_level, !.raised = TRUE]
    ELSE
    LET loaded == load_world(s.builders, s.files[new_level])
        placed == add_player(loaded, BLOCK_SIZE, BLOCK_SIZE)
    IN loaded_snap(
       [s EXCEPT !.world = _setup_collision_handlers(placed),
                 !.player.x = BLOCK_SIZE,
                 !.builders = builder_clear(s.builders),
                 !.level_holder = new_level,
                 !.death_action = FALSE,
                 !.player.health = change_health(@, MaxHealth)])

\* MarioApp.reset_world(new_level); loadable says whether load_world succeeds.
\* When load_world raises, nothing after it runs and the exception propagates.
reset_world(s, new_level, loadable) ==
    IF ~loadable THEN [s EXCEPT !.raised = TRUE]
    ELSE
    LET loaded == load_world(s.builders, s.files[new_level])
        placed == add_player(loaded, BLOCK_SIZE, BLOCK_SIZE)
    IN loaded_snap(
       [s EXCEPT !.world = _setup_collision_handlers(placed),
                 !.player.x = BLOCK_SIZE,
                 !.builders = builder_clear(s.builders),
                 !.level_holder = new_level,
                 !.death_action = FALSE,
                 !.player.health = change_health(@, MaxHealth)])

(* ------------------------------------------------------------------ *)
(* The World Facade: queries, removal, and what a Block, Item or Mob  *)
(* does when it is hit or collected                                   *)
(* ------------------------------------------------------------------ *)
\* World.get_all_things(): the entities in the world.
Things(w) == {w.ents[i] : i \in w.alive}

CatOf(w, cat) == {e \in Things(w) : e.cat = cat}

Blocks(w) == CatOf(w, "block")

Items(w) == CatOf(w, "item")

Mobs(w) == CatOf(w, "mob")

Players(w) == CatOf(w, "player")

\* World.remove_block / remove_item / remove_mob: removing an entity that is
\* not in the world changes nothing.
remove_thing(w, e) == [w EXCEPT !.alive = @ \ {e.n}]

\* DroppedItem.collect(player): a coin adds to the player's score.
collect(s, item) ==
    IF item.id = "coin" THEN [s EXCEPT !.player.score = @ + 1] ELSE s

\* The k items a MysteryBlock spawns above itself when it is used up.
RECURSIVE Drops(_, _)
Drops(b, k) ==
    IF k = 0 THEN <<>>
    ELSE Append(Drops(b, k - 1),
                Thing("item", "Coin", b.drop, b.x, b.y - BLOCK_SIZE,
                      "MysteryBlock.on_hit", "none", 0, 0))

\* Block.on_hit(arbiter, (world, player)): a plain block does nothing; an
\* active MysteryBlock becomes used and spawns k items of its drop.
block_on_hit(s, block, k) ==
    IF block.cls # "MysteryBlock" \/ block.n \in s.world.used THEN s
    ELSE [s EXCEPT !.world.used = @ \cup {block.n},
                   !.world.added = IF block.drop = "none" THEN @
                                   ELSE @ \o Drops(block, k)]

\* Mob.on_hit(arbiter, (world, player)): combat resolution, d points of damage.
mob_on_hit(s, mob, d) == [s EXCEPT !.player.health = change_health(@, 0 - d)]

(* ------------------------------------------------------------------ *)
(* The Collision Rule Engine: each handler gives the new state and    *)
(* the boolean it returns to the physics service.  s holds the world  *)
(* and the player, the data the callbacks are given.                  *)
(* ------------------------------------------------------------------ *)
\* A _handle_mob_collide_block that does nothing for a mob that has left the
\* world.
_handle_mob_collide_block_guarded(s, mob, block) ==
    [s |-> IF mob.id = "fireball" /\ mob.n \in s.world.alive
           THEN LET s1 == IF block.id = "brick"
                          THEN [s EXCEPT !.world = remove_thing(@, block)]
                          ELSE s
                IN [s1 EXCEPT !.world = remove_thing(@, mob)]
           ELSE s,
     ret |-> TRUE]

\* A _handle_mob_collide_block whose removal of the mob is nested under the
\* brick test.
_handle_mob_collide_block_nested(s, mob, block) ==
    [s |-> IF mob.id = "fireball" /\ block.id = "brick"
           THEN [s EXCEPT !.world = remove_thing(remove_thing(@, block), mob)]
           ELSE s,
     ret |-> TRUE]

_handle_mob_collide_block(s, mob, block) ==
    [s |-> IF mob.id = "fireball"
           THEN LET s1 == IF block.id = "brick"
                          THEN [s EXCEPT !.world = remove_thing(@, block)]
                          ELSE s
                IN [s1 EXCEPT !.world = remove_thing(@, mob)]
           ELSE s,
     ret |-> TRUE]

_handle_mob_collide_item(s, mob, item) == [s |-> s, ret |-> FALSE]

\* A _handle_mob_collide_mob that removes the fireball's victim only when the
\* fireball is the first participant.
_handle_mob_collide_mob_first(s, mob1, mob2) ==
    [s |-> IF mob1.id = "fireball"
           THEN [s EXCEPT !.world = remove_thing(remove_thing(@, mob1), mob2)]
           ELSE s,
     ret |-> FALSE]

_handle_mob_collide_mob(s, mob1, mob2) ==
    [s |-> IF mob1.id = "fireball" \/ mob2.id = "fireball"
           THEN [s EXCEPT !.world = remove_thing(remove_thing(@, mob1), mob2)]
           ELSE s,
     ret |-> FALSE]

\* A _handle_player_collide_item that collects the item and leaves it in the world.
_handle_player_collide_item_keeps(s, dropped_item) ==
    [s |-> collect(s, dropped_item), ret |-> FALSE]

_handle_player_collide_item(s, dropped_item) ==
    [s |-> LET s1 == collect(s, dropped_item)
           IN [s1 EXCEPT !.world = remove_thing(@, dropped_item)],
     ret |-> FALSE]

_handle_player_collide_block(s, block, k) ==
    [s |-> block_on_hit(s, block, k), ret |-> TRUE]

_handle_player_collide_mob(s, mob, d) ==
    [s |-> mob_on_hit(s, mob, d), ret |-> TRUE]

_handle_player_separate_block(s, block) == [s |-> s, ret |-> TRUE]

(* ------------------------------------------------------------------ *)
(* World.step: mobs act, the physics service reports begin contacts   *)
(* to the registered handlers, and the player's body moves            *)
(* ------------------------------------------------------------------ *)
\* The damage one hit of a mob may deal: a partial hit or a lethal one.
DamageChoices == {3, MaxHealth}

\* The distance the player's body covers in one step when it is moving.
MoveStep == 40 * BLOCK_SIZE

Contact(h, a, b, k, d) == [h |-> h, a |-> a, b |-> b, k |-> k, d |-> d]

DropCounts(b) == IF b.drop = "none" THEN {0} ELSE b.lo..b.hi

Fireballs(w) == {e \in Mobs(w) : e.id = "fireball"}

\* A new entity takes the index of a removed entity that was the same when
\* there is one (no contact can name the removed one any more), else a new index.
spawn_thing(w, e) ==
    LET gone == {i \in DOMAIN w.ents : i \notin w.alive /\ w.ents[i] = [e EXCEPT !.n = i]}
    IN IF gone = {} THEN add_thing(w, e)
       ELSE [w EXCEPT !.alive = @ \cup {CHOOSE i \in gone : \A j \in gone : i <= j}]

\* CloudMob.step: a cloud may release a fireball below itself.
SpawnChoices(w) ==
    {w} \cup
    {spawn_thing(w, Thing("mob", "Fireball", "fireball", c.x, c.y + BLOCK_SIZE,
                          "CloudMob.step", "none", 0, 0))
       : c \in {e \in Mobs(w) :
                  e.id = "cloud" /\ Cardinality(Fireballs(w)) < MaxFireballs}}

\* The begin (and separate) contacts the physics service may report in a tick:
\* pairs of entities of the world whose category pair has a handler.
TickContacts(w) ==
    LET has(a, b) == <<a, b>> \in w.handlers
    IN  {Contact("player_item", c[1], c[2], 0, 0) :
            c \in {p \in Players(w) : has("player", "item")} \X Items(w)}
   \cup UNION {{Contact("player_block", c[1], c[2], k, 0) : k \in DropCounts(c[2])} :
            c \in {p \in Players(w) : has("player", "block")} \X Blocks(w)}
   \cup {Contact("player_block_separate", c[1], c[2], 0, 0) :
            c \in {p \in Players(w) : has("player", "block")} \X Blocks(w)}
   \cup {Contact("player_mob", c[1], c[2], 0, c[3]) :
            c \in {p \in Players(w) : has("player", "mob")} \X Mobs(w) \X DamageChoices}
   \cup {Contact("mob_block", c[1], c[2], 0, 0) :
            c \in {e \in Mobs(w) : has("mob", "block")} \X Blocks(w)}
   \cup {Contact("mob_mob", c[1], c[2], 0, 0) :
            c \in {q \in Mobs(w) \X Mobs(w) : has("mob", "mob") /\ q[1] # q[2]}}
   \cup {Contact("mob_item", c[1], c[2], 0, 0) :
            c \in {e \in Mobs(w) : has("mob", "item")} \X Items(w)}

\* The handler the world calls for a contact, with what it returns.
Dispatch(s, c) ==
    CASE c.h = "player_item"  -> _handle_player_collide_item(s, c.b)
      [] c.h = "player_block" -> _handle_player_collide_block(s, c.b, c.k)
      [] c.h = "player_block_separate" -> _handle_player_separate_block(s, c.b)
      [] c.h = "player_mob"   -> _handle_player_collide_mob(s, c.b, c.d)
      [] c.h = "mob_block"    -> _handle_mob_collide_block(s, c.a, c.b)
      [] c.h = "mob_mob"      -> _handle_mob_collide_mob(s, c.a, c.b)
      [] OTHER                -> _handle_mob_collide_item(s, c.a, c.b)

\* A pair of entities begins contact at most once in a tick.  fired holds the
\* player's pairs that have been reported; of the other pairs a second report
\* would change nothing, so they are not remembered.
Pair(c) == <<c.h, c.b.n>>

Remembered(c) == c.h \in {"player_item", "player_mob"}

Fire(u, c) ==
    [s |-> Dispatch(u.s, c).s,
     fired |-> IF Remembered(c) THEN u.fired \cup {Pair(c)} ELSE u.fired]

\* The states after the callbacks of up to n of the tick's contacts cs, in any
\* order.  The contacts were found before the first callback ran, so a later
\* one may name an entity that an earlier one removed.  done holds the runs
\* already extended, front those of the last round.
RECURSIVE Callbacks(_, _, _, _)
Callbacks(done, front, cs, n) ==
    IF n = 0 \/ front = {} THEN done \cup front
    ELSE LET next == UNION {{Fire(u, c) :
                               c \in {q \in cs : Pair(q) \notin u.fired}} :
                            u \in front}
         IN Callbacks(done \cup front, next \ (done \cup front), cs, n - 1)

\* The player's body moves with its horizontal velocity unless it is blocked,
\* and stays between the boundary walls of the world.
Moves(p, width) ==
    LET vx  == p.velocity[1]
        to  == IF vx > 0 THEN p.x + MoveStep
               ELSE IF vx < 0 THEN p.x - MoveStep ELSE p.x
        at  == IF to < 0 THEN 0 ELSE IF to > width THEN width ELSE to
    IN {p.x, at}

\* The entities the callbacks added join the world when the step ends.
RECURSIVE Flush(_, _, _)
Flush(w, added, i) ==
    IF i = 0 THEN w ELSE spawn_thing(Flush(w, added, i - 1), added[i])

end_step(w) == Flush([w EXCEPT !.added = <<>>], w.added, Len(w.added))

\* World.step(data), data = (self._world, self._player): the callbacks are
\* given the world and the player, and nothing else of the application.  Of
\* the world they change what is in it and which blocks are used, of the
\* player the health and the score.
world_step(s) ==
    UNION {
      LET data == [world  |-> [alive |-> w.alive, used |-> w.used, added |-> <<>>],
                   player |-> [health |-> s.player.health, score |-> s.player.score]]
          runs == Callbacks({}, {[s |-> data, fired |-> {}]}, TickContacts(w), MaxContacts)
      IN {[s EXCEPT !.world = end_step([w EXCEPT !.alive = r[1].s.world.alive,
                                                 !.used = r[1].s.world.used,
                                                 !.added = r[1].s.world.added]),
                    !.player.health = r[1].s.player.health,
                    !.player.score = r[1].s.player.score,
                    !.player.x = r[2],
                    !.tick_log = Append(@, "world_step")]
            : r \in runs \X Moves(s.player, w.width)}
      : w \in SpawnChoices(s.world)}

(* ------------------------------------------------------------------ *)
(* The Camera Controller                                              *)
(* ------------------------------------------------------------------ *)
\* A scroll that moves the view by the distance to the centre instead of
\* setting it.
scroll_offset_accumulates(prev, x_position, window_width, world_width) ==
    LET half_screen == window_width \div 2
        world_size  == world_width - half_screen
    IN IF x_position <= half_screen THEN <<0, 0>>
       ELSE IF half_screen <= x_position /\ x_position <= world_size
            THEN <<prev[1] + half_screen - x_position, 0>>
       ELSE IF x_position >= world_size
            THEN <<half_screen - world_size, 0>>
       ELSE prev

\* A scroll that centres the player wherever the player is.
scroll_offset_centred(prev, x_position, window_width, world_width) ==
    <<(window_width \div 2) - x_position, 0>>

\* A scroll whose right-side offset is measured from the world's edge.
scroll_offset_world_edge(prev, x_position, window_width, world_width) ==
    LET half_screen == window_width \div 2
        world_size  == world_width - half_screen
    IN IF x_position <= half_screen THEN <<0, 0>>
       ELSE IF half_screen <= x_position /\ x_position <= world_size
            THEN <<half_screen - x_position, 0>>
       ELSE IF x_position >= world_size
            THEN <<half_screen - world_width, 0>>
       ELSE prev

\* MarioApp.scroll: the offset it sets, or prev when no branch is taken.
\* Widths are even (a multiple of BLOCK_SIZE, or MAX_WINDOW_WIDTH), so the
\* half of the window width is exact.
scroll_offset(prev, x_position, window_width, world_width) ==
    LET half_screen == window_width \div 2
        world_size  == world_width - half_screen
    IN IF x_position <= half_screen THEN <<0, 0>>
       ELSE IF half_screen <= x_position /\ x_position <= world_size
            THEN <<half_screen - x_position, 0>>
       ELSE IF x_position >= world_size
            THEN <<half_screen - world_size, 0>>
       ELSE prev

scroll(s) ==
    [s EXCEPT !.view_offset =
        scroll_offset(@, s.player.x, s.win_width, s.world.width),
              !.tick_log = Append(@, "scroll")]

\* MarioApp.redraw: the canvas is cleared and every thing of the world drawn.
redraw(s) == [s EXCEPT !.tick_log = Append(@, "redraw")]

(* ------------------------------------------------------------------ *)
(* The Game Loop and Lifecycle                                        *)
(* ------------------------------------------------------------------ *)
\* MarioApp.on_death: sets the flag and opens the "You dead" window.
on_death(s) ==
    [s EXCEPT !.death_action = TRUE,
              !.death_popups = @ + 1,
              !.on_death_calls = @ + 1]

\* The tail of MarioApp.step: the health evaluation.
health_check(s) ==
    LET t == [s EXCEPT !.tick_log = Append(@, "health")]
    IN IF t.player.health = 0 /\ ~t.death_action THEN on_death(t) ELSE t

\* A step that schedules its next run only while the player is alive.
schedule_unless_dead(s) ==
    IF s.player.health = 0 THEN s
    ELSE [s EXCEPT !.pending = @ + 1, !.tick_log = Append(@, "after")]

\* master.after(10, self.step)
schedule(s) == [s EXCEPT !.pending = @ + 1, !.tick_log = Append(@, "after")]

\* A step that evaluates the health before it schedules its next run.
step_schedules_last(s) ==
    {schedule(health_check(redraw(scroll(t))))
        : t \in world_step([s EXCEPT !.tick_log = <<>>])}

\* MarioApp.step: world step, scroll, redraw, reschedule, health evaluation.
step(s) ==
    {health_check(schedule(redraw(scroll(t))))
        : t \in world_step([s EXCEPT !.tick_log = <<>>])}

\* The MarioApp object before __init__ has run, beside the files on disk.
Blank(disk) ==
    [files |-> disk, app |-> "new", builders |-> {},
     world |-> EmptyWorld(0),
     level_holder |-> "none", death_action |-> FALSE,
     player |-> [health |-> MaxHealth, score |-> 0, velocity |-> <<0, 0>>, x |-> 0],
     win_width |-> 0, view_offset |-> <<0, 0>>,
     pending |-> 0, death_popups |-> 0, level_popups |-> 0,
     raised |-> FALSE, on_death_calls |-> 0, reset_snap |-> <<MaxHealth, FALSE>>,
     tick_in_prompt |-> FALSE, tick_log |-> <<>>]

Min(a, b) == IF a < b THEN a ELSE b

\* The statement that ends MarioApp.__init__, after its call of step.
init_tail(s) == [s EXCEPT !.death_action = FALSE]

\* MarioApp.__init__ up to its call of step: builder, player, first level, view.
init_head(disk) ==
    LET s0 == [Blank(disk) EXCEPT !.builders = ConstructorBuilders]
        s1 == reset_world(s0, "level1.txt", TRUE)
    IN [s1 EXCEPT !.level_holder = "level1.txt",
                  !.win_width = Min(MAX_WINDOW_WIDTH, s1.world.width)]

\* MarioApp.__init__: the states the constructor may leave; main() then enters
\* root.mainloop().
__init__(disk) ==
    {[init_tail(t) EXCEPT !.app = "running"] : t \in step(init_head(disk))}

\* An exit_game that leaves the scheduled callbacks of the window in place.
exit_game_keeps_timer(s) ==
    IF s.app = "exited" THEN [s EXCEPT !.raised = TRUE]
    ELSE [s EXCEPT !.app = "exited"]

\* MarioApp.exit_game: master.destroy() ends the window, its bindings, its
\* menu and its scheduled callbacks; destroying it twice raises.
exit_game(s) ==
    IF s.app = "exited" THEN [s EXCEPT !.raised = TRUE]
    ELSE [s EXCEPT !.app = "exited", !.pending = 0]

\* MarioApp._move, _jump, _duck
_move(s, dx, dy) == [s EXCEPT !.player.velocity = <<dx, dy>>]

\* A jump whose velocity points down the screen.
_jump_down(s) == [s EXCEPT !.player.velocity = <<0, JumpSpeed>>]

_jump(s) == [s EXCEPT !.player.velocity = <<0, 0 - JumpSpeed>>]

_duck(s) == s

\* MarioApp.load_level_menu: opens the "Level select" window.
load_level_menu(s) == [s EXCEPT !.level_popups = @ + 1]

\* A popup button's command, the list [self.reset_world(level), popup.destroy()]:
\* the window is destroyed only when reset_world returned.
level_button(s, level, loadable) ==
    LET r == reset_world(s, level, loadable)
    IN IF r.raised THEN r ELSE [r EXCEPT !.level_popups = @ - 1]

restart_button(s, loadable) ==
    LET r == reset_world(s, "level1.txt", loadable)
    IN IF r.raised THEN r ELSE [r EXCEPT !.death_popups = @ - 1]

end_button(s) ==
    LET r == exit_game(s)
    IN IF r.raised THEN r ELSE [r EXCEPT !.death_popups = @ - 1]

(* ------------------------------------------------------------------ *)
(* The specification: one action per handler of the event loop        *)
(* ------------------------------------------------------------------ *)
\* The state a handler starts from: no exception has been raised in it yet.
Begin == [Cur EXCEPT !.raised = FALSE, !.tick_in_prompt = FALSE]

InitAssign(t) ==
    /\ files = t.files
    /\ app = t.app
    /\ builders = t.builders
    /\ world = t.world
    /\ level_holder = t.level_holder
    /\ death_action = t.death_action
    /\ player = t.player
    /\ win_width = t.win_width
    /\ view_offset = t.view_offset
    /\ pending = t.pending
    /\ death_popups = t.death_popups
    /\ level_popups = t.level_popups
    /\ raised = t.raised
    /\ on_death_calls = t.on_death_calls
    /\ reset_snap = t.reset_snap
    /\ tick_in_prompt = t.tick_in_prompt
    /\ tick_log = t.tick_log

\* The states MarioApp(root) leaves when main() enters root.mainloop().
Init == \E t \in __init__(GameFiles) : t.death_popups <= MaxDeathPopups /\ InitAssign(t)

\* The timer fires: one scheduled step callback runs.
Step ==
    /\ app = "running"
    /\ pending > 0
    /\ \E t \in step([Begin EXCEPT !.pending = @ - 1,
                                  !.tick_in_prompt = death_popups > 0]) :
          t.death_popups <= MaxDeathPopups /\ Assign(t)

KeyMove ==
    /\ app = "running"
    /\ \E dx \in {-500, -50, 50, 500} : \E t \in {_move(Begin, dx, 0)} : Assign(t)

KeyJump == app = "running" /\ \E t \in {_jump(Begin)} : Assign(t)

KeyDuck == app = "running" /\ \E t \in {_duck(Begin)} : Assign(t)

MenuLoadLevel ==
    /\ app = "running"
    /\ level_popups < MaxLevelPopups
    /\ \E t \in {load_level_menu(Begin)} : Assign(t)

MenuResetLevel ==
    /\ app = "running"
    /\ \E loadable \in BOOLEAN :
          \E t \in {reset_world(Begin, level_holder, loadable)} : Assign(t)

MenuExit == app = "running" /\ \E t \in {exit_game(Begin)} : Assign(t)

LevelButton ==
    /\ level_popups > 0
    /\ \E level \in LevelNames, loadable \in BOOLEAN :
          \E t \in {level_button(Begin, level, loadable)} : Assign(t)

DeathRestart ==
    /\ death_popups > 0
    /\ \E loadable \in BOOLEAN :
          \E t \in {restart_button(Begin, loadable)} : Assign(t)

DeathEnd == death_popups > 0 /\ \E t \in {end_button(Begin)} : Assign(t)

Next ==
    \/ Step
    \/ KeyMove
    \/ KeyJump
    \/ KeyDuck
    \/ MenuLoadLevel
    \/ MenuResetLevel
    \/ MenuExit
    \/ LevelButton
    \/ DeathRestart
    \/ DeathEnd

Spec == Init /\ [][Next]_vars

(* ------------------------------------------------------------------ *)
(* The camera on its own: MarioApp.scroll over a range of player      *)
(* positions, window widths and world widths                          *)
(* ------------------------------------------------------------------ *)
\* winfo_width() of the main window (the user may have resized it).
ScrollWindowWidths == {800, MAX_WINDOW_WIDTH}

\* The last grid column of the level: worlds 640, 800, 1600 and 3200 wide.
ScrollColumns == {39, 49, 99, 199}

\* The x coordinates the player's body is at.
ScrollPositions ==
    {0, 100, 240, 320, 400, 401, 540, 600, 800, 1000, 1200, 2400, 2800, 2801, 3100, 3200}

\* A level whose only placement is a brick in its last column.
ScrollFiles(column) == [level \in LevelNames |-> << <<"#", column, 0>> >>]

\* The application with its first level loaded and its window shown.
ScrollInit ==
    \E column \in ScrollColumns, window_width \in ScrollWindowWidths,
       x_position \in ScrollPositions :
       InitAssign([init_head(ScrollFiles(column)) EXCEPT
                       !.app = "running",
                       !.pending = 1,
                       !.win_width = window_width,
                       !.player.x = x_position])

\* The camera update of a tick.
ScrollTick == \E t \in {[scroll(Cur) EXCEPT !.tick_log = <<>>]} : Assign(t)

\* The player's body is carried to another position.
ScrollPlace ==
    \E x_position \in ScrollPositions :
       \E t \in {[Cur EXCEPT !.player.x = x_position]} : Assign(t)

ScrollNext ==
    \/ ScrollTick
    \/ ScrollPlace

ScrollSpec == ScrollInit /\ [][ScrollNext]_vars

(* ------------------------------------------------------------------ *)
(* The collision rule engine on its own: the handlers called one      *)
(* contact at a time on the world the constructor loaded              *)
(* ------------------------------------------------------------------ *)
\* Contents of level1.txt: every kind of block with a coin and a cloud, and
\* a coin-dispensing mystery block with an unknown symbol, and two clouds
\* over a brick.
Layouts ==
    { << <<"#", 0, 3>>, <<"%", 1, 3>>, <<"?", 2, 1>>, <<"^", 3, 3>>,
         <<"C", 4, 2>>, <<"&", 5, 0>> >>,
      << <<"$", 0, 1>>, <<"@", 3, 3>>, <<"#", 1, 3>>, <<"&", 2, 0>> >>,
      << <<"&", 0, 0>>, <<"#", 1, 3>>, <<"&", 2, 0>> >> }

\* Every entity the world holds or has held: a contact found earlier in the
\* tick may name a mob or a block that a callback has removed since.  (The
\* player meets an item once: its one contact is with an item in the world.)
Ever(w, cat) == {w.ents[i] : i \in {j \in DOMAIN w.ents : w.ents[j].cat = cat}}

\* The world and the player after a callback, its added entities in place.
AfterCallback(s) == [s EXCEPT !.world = end_step(@)]

WorldInit ==
    \E file \in Layouts :
       InitAssign(init_head([level \in LevelNames |-> file]))

PlayerCollideItem ==
    /\ <<"player", "item">> \in world.handlers
    /\ \E item \in Items(world) :
          \E t \in {AfterCallback(_handle_player_collide_item(Cur, item).s)} : Assign(t)

PlayerCollideBlock ==
    /\ <<"player", "block">> \in world.handlers
    /\ \E block \in Ever(world, "block") : \E k \in DropCounts(block) :
          \E t \in {AfterCallback(_handle_player_collide_block(Cur, block, k).s)} : Assign(t)

PlayerSeparateBlock ==
    /\ <<"player", "block">> \in world.handlers
    /\ \E block \in Ever(world, "block") :
          \E t \in {AfterCallback(_handle_player_separate_block(Cur, block).s)} : Assign(t)

PlayerCollideMob ==
    /\ <<"player", "mob">> \in world.handlers
    /\ \E mob \in Ever(world, "mob"), d \in DamageChoices :
          \E t \in {AfterCallback(_handle_player_collide_mob(Cur, mob, d).s)} : Assign(t)

MobCollideBlock ==
    /\ <<"mob", "block">> \in world.handlers
    /\ \E mob \in Ever(world, "mob"), block \in Ever(world, "block") :
          \E t \in {AfterCallback(_handle_mob_collide_block(Cur, mob, block).s)} : Assign(t)

MobCollideMob ==
    /\ <<"mob", "mob">> \in world.handlers
    /\ \E mob1 \in Ever(world, "mob"), mob2 \in Ever(world, "mob") :
          /\ mob1 # mob2
          /\ \E t \in {AfterCallback(_handle_mob_collide_mob(Cur, mob1, mob2).s)} : Assign(t)

MobCollideItem ==
    /\ <<"mob", "item">> \in world.handlers
    /\ \E mob \in Ever(world, "mob"), item \in Ever(world, "item") :
          \E t \in {AfterCallback(_handle_mob_collide_item(Cur, mob, item).s)} : Assign(t)

\* A cloud releases a fireball.
CloudStep == \E w \in SpawnChoices(world) : \E t \in {[Cur EXCEPT !.world = w]} : Assign(t)

WorldNext ==
    \/ PlayerCollideItem
    \/ PlayerCollideBlock
    \/ PlayerSeparateBlock
    \/ PlayerCollideMob
    \/ MobCollideBlock
    \/ MobCollideMob
    \/ MobCollideItem
    \/ CloudStep

WorldSpec == WorldInit /\ [][WorldNext]_vars

(* ------------------------------------------------------------------ *)
(* Properties of the game loop and lifecycle (under Spec)             *)
(* ------------------------------------------------------------------ *)
\* C1: in every life (between two level loads) on_death is invoked exactly once
\* when health has reached 0 and never a second time while health stays 0,
\* the tick run from the constructor included.
C1_OnDeathOncePerLife ==
    /\ on_death_calls <= 1
    /\ player.health = 0 => on_death_calls = 1

\* C2: every completed reset_world leaves health at max_health and the death
\* flag false; a tick that then finds health at 0 invokes on_death (it sets
\* the flag and opens one prompt), and so does every tick of a run in which
\* health drops to 0.
C2_ResetRestoresAndRearms ==
    /\ [](reset_snap = <<MaxHealth, FALSE>>)
    /\ [](\A level \in LevelNames :
            LET r == reset_world(Begin, level, TRUE)
                d == health_check([r EXCEPT !.player.health = 0])
            IN /\ r.player.health = MaxHealth
               /\ ~r.death_action
               /\ d.death_action
               /\ d.on_death_calls = 1
               /\ d.death_popups = r.death_popups + 1)
    /\ [][(player.health > 0 /\ player'.health = 0)
            => /\ death_action'
               /\ on_death_calls' = on_death_calls + 1
               /\ death_popups' = death_popups + 1]_vars

\* A level was loaded after a death: a prompt of that death is still open, and
\* the player is at full health with the flag cleared.
C2_ReloadedAfterDeath ==
    /\ death_popups > 0
    /\ reset_snap = <<MaxHealth, FALSE>>
    /\ player.health = MaxHealth
    /\ ~death_action
    /\ on_death_calls = 0

\* C3: the death flag is true iff health is 0 and on_death has been invoked
\* since the last level load.
C3_FlagIffDeathHandled ==
    death_action <=> (player.health = 0 /\ on_death_calls > 0)

\* C4 as stated: while a death prompt is open no step callback runs.
C4_LoopNotReentered == ~tick_in_prompt

\* C4: while a death prompt is open and the main window exists, a step callback
\* stays scheduled, so the loop keeps being re-entered and key input keeps
\* its effect.
C4_LoopKeepsRunning ==
    (death_popups > 0 /\ app = "running") => pending > 0

\* A tick has run with the prompt open and the dead player was moved by it.
C4_TickWhilePromptOpen ==
    /\ tick_in_prompt
    /\ player.health = 0
    /\ player.velocity[1] # 0
    /\ player.x # BLOCK_SIZE

\* C5: in the world of every load, each placement whose symbol is in BLOCKS,
\* ITEMS or MOBS was built by its registered factory, not by create_unknown.
C5_ReloadUsesRegisteredFactories ==
    \A i \in 1..Len(files[level_holder]) :
       files[level_holder][i][1] \in (DOMAIN BLOCKS \cup DOMAIN ITEMS \cup DOMAIN MOBS)
          => world.ents[i].by # "create_unknown"

\* C6: a handler that ends with the exception of a failed load has changed
\* nothing: the world and its entities and collision registrations, the level
\* name, the death flag, the player and the registry are as before.
C6_FailedLoadChangesNothing ==
    [][raised' => /\ world' = world
                  /\ level_holder' = level_holder
                  /\ death_action' = death_action
                  /\ player' = player
                  /\ builders' = builders
                  /\ on_death_calls' = on_death_calls]_vars

\* A load failed while the player was dead: flag and health are still there.
C6_FailedLoadWhileDead ==
    /\ raised
    /\ app = "running"
    /\ death_action
    /\ player.health = 0

(* ------------------------------------------------------------------ *)
(* Properties of the camera (under ScrollSpec)                        *)
(* ------------------------------------------------------------------ *)
\* The offsets the view may hold before a scroll.
PriorOffsets == {view_offset, <<0, 0>>, <<-600, 0>>, <<160, 0>>}

\* The offset scroll sets from the current inputs when the view held prior.
Scrolled(prior) == scroll([Cur EXCEPT !.view_offset = prior]).view_offset

\* C7 as stated: the three cases, each wherever its condition holds.
C7_ScrollThreeCases ==
    LET x    == player.x
        half == win_width \div 2
        edge == world.width - half
    IN \A prior \in PriorOffsets :
          /\ x <= half => Scrolled(prior) = <<0, 0>>
          /\ (half <= x /\ x <= edge) => Scrolled(prior) = <<half - x, 0>>
          /\ x >= edge => Scrolled(prior) = <<half - world.width + half, 0>>

\* C7: the offset is (0, 0) when x <= vw/2, (vw/2 - x, 0) when
\* vw/2 <= x <= ww - vw/2, and (vw/2 - ww + vw/2, 0) when x >= ww - vw/2 and
\* x > vw/2, whatever offset the view held before.
C7_ScrollFirstMatch ==
    LET x    == player.x
        half == win_width \div 2
        edge == world.width - half
    IN \A prior \in PriorOffsets :
          /\ x <= half => Scrolled(prior) = <<0, 0>>
          /\ (half <= x /\ x <= edge) => Scrolled(prior) = <<half - x, 0>>
          /\ (x >= edge /\ x > half) => Scrolled(prior) = <<half - world.width + half, 0>>

\* The view was scrolled to the right side of a world narrower than the window.
C7_RightSideOfNarrowWorld ==
    /\ world.width < win_width
    /\ player.x > win_width \div 2
    /\ view_offset = <<win_width - world.width, 0>>

\* C8 as stated: with a window of 800 and a world of 3200 the offset is 0 at
\* x = 100, -600 at x = 1000 and -2800 at x = 3100.
C8_ExampleOffsets ==
    (win_width = 800 /\ world.width = 3200) =>
        /\ player.x = 100  => Scrolled(view_offset) = <<0, 0>>
        /\ player.x = 1000 => Scrolled(view_offset) = <<-600, 0>>
        /\ player.x = 3100 => Scrolled(view_offset) = <<-2800, 0>>

\* C8: with a window of 800 and a world of 3200 the offset is 0 at x = 100,
\* -600 at x = 1000 and -2400 at x = 3100.
C8_ExampleOffsetsRightSide ==
    (win_width = 800 /\ world.width = 3200) =>
        /\ player.x = 100  => Scrolled(view_offset) = <<0, 0>>
        /\ player.x = 1000 => Scrolled(view_offset) = <<-600, 0>>
        /\ player.x = 3100 => Scrolled(view_offset) = <<-2400, 0>>

\* The view was scrolled with the player at 3100 in that world.
C8_ScrolledAt3100 ==
    /\ win_width = 800
    /\ world.width = 3200
    /\ player.x = 3100
    /\ view_offset = <<-2400, 0>>

(* ------------------------------------------------------------------ *)
(* Properties of the collision handlers (under WorldSpec)             *)
(* ------------------------------------------------------------------ *)
\* C9: for every item, _handle_player_collide_item returns False, gives the
\* player the item's collect effect, and leaves the world without that item
\* and otherwise as it was.
C9_PlayerItemCollectsAndRemoves ==
    \A item \in Ever(world, "item") :
       LET r == _handle_player_collide_item(Cur, item)
       IN /\ r.ret = FALSE
          /\ r.s.player = collect(Cur, item).player
          /\ item \notin Things(r.s.world)
          /\ Things(r.s.world) = Things(world) \ {item}
          /\ r.s = [Cur EXCEPT !.player = r.s.player,
                               !.world.alive = @ \ {item.n}]

\* The player has collected a coin, and the coin is gone from the world.
C9_CoinCollected ==
    /\ player.score > 0
    /\ \E item \in Ever(world, "item") : item.id = "coin" /\ item \notin Things(world)

\* C10: for every mob and block, _handle_mob_collide_block returns True; a
\* fireball is removed, and with it the block iff the block's id is "brick";
\* with any other mob nothing is removed.
C10_FireballConsumedBrickRemoved ==
    \A mob \in Ever(world, "mob"), block \in Ever(world, "block") :
       LET r == _handle_mob_collide_block(Cur, mob, block)
       IN /\ r.ret = TRUE
          /\ mob.id = "fireball" =>
                /\ mob \notin Things(r.s.world)
                /\ block.id = "brick" => block \notin Things(r.s.world)
                /\ block.id # "brick" =>
                      (block \in Things(r.s.world) <=> block \in Things(world))
                /\ r.s = [Cur EXCEPT !.world.alive =
                             @ \ ({mob.n} \cup IF block.id = "brick" THEN {block.n} ELSE {})]
          /\ mob.id # "fireball" => r.s = Cur

\* A fireball has destroyed the brick, beside blocks of other kinds that stand.
C10_BrickDestroyed ==
    /\ \E block \in Ever(world, "block") : block.id = "brick" /\ block \notin Things(world)
    /\ \E mob \in Ever(world, "mob") : mob.id = "fireball" /\ mob \notin Things(world)
    /\ \E block \in Blocks(world) : block.id = "brick_base"

\* C11: for every pair of mobs, _handle_mob_collide_mob returns False; when
\* one of them is a fireball both are removed and nothing else changes, and
\* otherwise nothing is removed.
C11_MobMobBothOrNeither ==
    \A mob1 \in Ever(world, "mob"), mob2 \in Ever(world, "mob") :
       mob1 # mob2 =>
       LET r == _handle_mob_collide_mob(Cur, mob1, mob2)
           projectile == mob1.id = "fireball" \/ mob2.id = "fireball"
       IN /\ r.ret = FALSE
          /\ projectile =>
                /\ mob1 \notin Things(r.s.world)
                /\ mob2 \notin Things(r.s.world)
                /\ r.s = [Cur EXCEPT !.world.alive = @ \ {mob1.n, mob2.n}]
          /\ ~projectile => r.s = Cur

\* A fireball has taken a cloud with it while another cloud is in the world.
C11_CloudShotDown ==
    /\ \E mob \in Ever(world, "mob") : mob.id = "cloud" /\ mob \notin Things(world)
    /\ \E mob \in Ever(world, "mob") : mob.id = "fireball" /\ mob \notin Things(world)
    /\ \E mob \in Mobs(world) : mob.id = "cloud"

\* The world without the entities of a set, each removed once.
RemovedOnce(set) == [Cur EXCEPT !.world.alive = @ \ {e.n : e \in set}]

Bricks(set) == {b \in set : b.id = "brick"}

\* C12: when two contacts of a tick name the same fireball (two blocks, a
\* block and then another mob, or another mob and then a block), the second
\* handler finds entities already removed and the world afterwards is the
\* world with every entity the handlers remove taken out once.
C12_SecondRemovalIsNoOp ==
    \A f \in {m \in Ever(world, "mob") : m.id = "fireball"} :
       /\ \A b1 \in Ever(world, "block"), b2 \in Ever(world, "block") :
             _handle_mob_collide_block(_handle_mob_collide_block(Cur, f, b1).s, f, b2).s
                = RemovedOnce({f} \cup Bricks({b1, b2}))
       /\ \A b \in Ever(world, "block"), m \in Ever(world, "mob") \ {f} :
             /\ _handle_mob_collide_mob(_handle_mob_collide_block(Cur, f, b).s, f, m).s
                   = RemovedOnce({f, m} \cup Bricks({b}))
             /\ _handle_mob_collide_block(_handle_mob_collide_mob(Cur, m, f).s, f, b).s
                   = RemovedOnce({f, m} \cup Bricks({b}))

\* The contacts of a fireball with the brick and with a cloud have both been
\* handled: the three are gone and the other entities are in the world.
C12_FireballBrickAndCloudGone ==
    /\ \E mob \in Ever(world, "mob") : mob.id = "fireball" /\ mob \notin Things(world)
    /\ \E mob \in Ever(world, "mob") : mob.id = "cloud" /\ mob \notin Things(world)
    /\ \E block \in Ever(world, "block") : block.id = "brick" /\ block \notin Things(world)
    /\ Fireballs(world) = {}
    /\ Players(world) # {}

(* ------------------------------------------------------------------ *)
(* Properties of the factories (under WorldSpec)                      *)
(* ------------------------------------------------------------------ *)
\* The symbols with a registered factory, and two without.
RegisteredSymbols == DOMAIN BLOCKS \cup DOMAIN ITEMS \cup DOMAIN MOBS

UnknownSymbols == {"@", "x"}

\* Grid coordinates of a placement.
GridCoordinates == {0, 1, 5}

\* The placement's entity as it stands in world w right after its build.
Built(w) == w.ents[Len(w.ents)]

\* Exactly one entity was added to before, and nothing else of it changed.
AddedOne(before, after) ==
    /\ Len(after.ents) = Len(before.ents) + 1
    /\ after = [before EXCEPT !.ents = Append(@, Built(after)),
                              !.alive = @ \cup {Len(after.ents)}]
    /\ Built(after).n = Len(after.ents)

\* C13: a placement whose symbol has no registered factory adds exactly one
\* generic Entity of BLOCK_SIZE x BLOCK_SIZE at its grid position, whatever
\* the registry holds, and in the loaded world every such placement of the
\* file stands at its place among the entities, the later placements and the
\* player after it.
C13_UnknownSymbolBuildsEntity ==
    /\ \A sym \in UnknownSymbols, gx \in GridCoordinates, gy \in GridCoordinates,
          bs \in {ConstructorBuilders, builders} :
          LET after == Build(bs, world, <<sym, gx, gy>>)
              e == Built(after)
          IN /\ AddedOne(world, after)
             /\ e.cat = "thing" /\ e.cls = "Entity" /\ e.by = "create_unknown"
             /\ e.w = BLOCK_SIZE /\ e.h = BLOCK_SIZE
             /\ e.x = gx * BLOCK_SIZE /\ e.y = gy * BLOCK_SIZE
    /\ LET file == files[level_holder]
       IN /\ Len(world.ents) > Len(file)
          /\ world.ents[Len(file) + 1].cat = "player"
          /\ \A i \in 1..Len(file) :
                file[i][1] \notin RegisteredSymbols =>
                   /\ world.ents[i].cls = "Entity"
                   /\ world.ents[i].by = "create_unknown"
                   /\ world.ents[i].w = BLOCK_SIZE /\ world.ents[i].h = BLOCK_SIZE
                   /\ world.ents[i].x = file[i][2] * BLOCK_SIZE
                   /\ world.ents[i].y = file[i][3] * BLOCK_SIZE

\* A level with an unknown symbol before other placements has been loaded: its
\* Entity is in the world and so are the entities of the later placements.
C13_UnknownAmongPlacements ==
    LET file == files[level_holder]
    IN \E i \in 1..(Len(file) - 1) :
          /\ file[i][1] \notin RegisteredSymbols
          /\ world.ents[i].cls = "Entity"
          /\ i \in world.alive
          /\ world.ents[i + 1].by # "create_unknown"
          /\ Len(world.ents) > Len(file)

\* The category the constructor registers a symbol under.
CategoryOf(sym) ==
    IF sym \in DOMAIN BLOCKS THEN "block"
    ELSE IF sym \in DOMAIN ITEMS THEN "item" ELSE "mob"

\* The factory function of a category, applied.
Factory(w, sym, gx, gy) ==
    IF sym \in DOMAIN BLOCKS THEN create_block(w, sym, gx, gy)
    ELSE IF sym \in DOMAIN ITEMS THEN create_item(w, sym, gx, gy)
    ELSE create_mob(w, sym, gx, gy)

\* What C14 says of the entity e a registered symbol gives at (gx, gy).
AsRegistered(e, sym, gx, gy) ==
    /\ e.cat = CategoryOf(sym)
    /\ e.x = gx * BLOCK_SIZE /\ e.y = gy * BLOCK_SIZE
    /\ sym = "?" => e.cls = "MysteryBlock" /\ e.drop = "none"
    /\ sym = "$" => e.cls = "MysteryBlock" /\ e.drop = "coin" /\ e.lo = 3 /\ e.hi = 6
    /\ sym \in DOMAIN BLOCKS \ {"?", "$"} =>
          e.cls = "Block" /\ e.id = BLOCKS[sym] /\ e.drop = "none"

\* C14: for every grid position and every registered symbol the symbol's
\* factory adds exactly one entity, of the symbol's category, at
\* (gx * BLOCK_SIZE, gy * BLOCK_SIZE): '?' a MysteryBlock without drop, '$' a
\* MysteryBlock dropping "coin" with range (3, 6), any other block symbol a
\* plain Block of the mapped id; the registry of the constructor sends the
\* symbol to that factory, and the loaded world holds each such placement so.
C14_FactoryPlacesByCategory ==
    /\ \A sym \in RegisteredSymbols, gx \in GridCoordinates, gy \in GridCoordinates :
          LET after == Factory(world, sym, gx, gy)
              e == Built(after)
          IN /\ AddedOne(world, after)
             /\ AsRegistered(e, sym, gx, gy)
             /\ CatOf(after, CategoryOf(sym)) = CatOf(world, CategoryOf(sym)) \cup {e}
             /\ Build(ConstructorBuilders, world, <<sym, gx, gy>>) = after
    /\ LET file == files[level_holder]
       IN \A i \in 1..Len(file) :
             file[i][1] \in RegisteredSymbols =>
                AsRegistered(world.ents[i], file[i][1], file[i][2], file[i][3])

\* A level with a '$' and a '#' has been loaded: the world holds the coin
\* MysteryBlock and the plain brick at their pixel positions.
C14_CoinBlockAndBrickLoaded ==
    LET file == files[level_holder]
    IN \E i \in 1..Len(file), j \in 1..Len(file) :
          /\ file[i][1] = "$" /\ file[j][1] = "#"
          /\ world.ents[i] \in Blocks(world) /\ world.ents[j] \in Blocks(world)
          /\ world.ents[i].drop = "coin" /\ world.ents[i].cls = "MysteryBlock"
          /\ world.ents[j].cls = "Block" /\ world.ents[j].id = "brick"
          /\ world.ents[j].x = file[j][2] * BLOCK_SIZE

(* ------------------------------------------------------------------ *)
(* Properties of the tick (under Spec)                                *)
(* ------------------------------------------------------------------ *)
\* The place of a call in the log of the last step, 0 when it was not made.
Place(op) ==
    IF \E i \in 1..Len(tick_log) : tick_log[i] = op
    THEN CHOOSE i \in 1..Len(tick_log) : tick_log[i] = op
    ELSE 0

\* Every call of a step was made, and made once.
EachOnce ==
    /\ Len(tick_log) = 5
    /\ \A op \in {"world_step", "scroll", "redraw", "after", "health"} : Place(op) > 0

\* C15 as stated: in every tick the world step, the camera update, the redraw
\* and the health evaluation come in this order, and the next tick is
\* scheduled only when the tick has run to completion, the health evaluation
\* included.
C15_ScheduledAfterCompletion ==
    /\ EachOnce
    /\ Place("world_step") < Place("scroll")
    /\ Place("scroll") < Place("redraw")
    /\ Place("redraw") < Place("health")
    /\ Place("health") < Place("after")

\* C15 (amended): every tick makes its calls once each in the order world
\* step, camera update, redraw, scheduling of the next tick, health
\* evaluation; the next tick is scheduled before the health evaluation and
\* the death transition run, and it is still only scheduled, not begun, when
\* the tick ends.
C15_TickOrder ==
    /\ tick_log = <<"world_step", "scroll", "redraw", "after", "health">>
    /\ app = "running" => pending > 0

\* A tick has found the health at 0 and made the death transition, its next
\* tick already scheduled.
C15_TickEndedInDeath ==
    /\ EachOnce
    /\ app = "running"
    /\ player.health = 0
    /\ death_action
    /\ death_popups = 1
    /\ pending = 1
    /\ tick_in_prompt = FALSE
    /\ on_death_calls = 1

(* ------------------------------------------------------------------ *)
(* Properties of the loaded world (under Spec)                        *)
(* ------------------------------------------------------------------ *)
\* The factories of the level loader and the player's placement.
LoaderMarks ==
    {"create_block", "create_item", "create_mob", "create_unknown", "add_player"}

\* The world is that of the level named by level_holder and of no other: its
\* first entities are the file's placements in the file's order, built by some
\* state of the registry, the player follows them, whatever comes after was
\* added during play, and the width is the file's.
OfOneLevel ==
    LET file == files[level_holder]
        n == Len(file)
    IN /\ Len(world.ents) > n
       /\ \E bs \in {ConstructorBuilders, builder_clear(ConstructorBuilders)} :
             SubSeq(world.ents, 1, n + 1) =
                add_player(load_world(bs, file), BLOCK_SIZE, BLOCK_SIZE).ents
       /\ \A i \in (n + 2)..Len(world.ents) : world.ents[i].by \notin LoaderMarks
       /\ world.width = LevelPixelWidth(file)

\* C16: in every state a tick may start from, the world holds the Player
\* exactly once, has all six collision-handler registrations, and consists of
\* the entities of one level only, the one level_holder names.
C16_TickSeesLoadedWorld ==
    /\ Cardinality(Players(world)) = 1
    /\ Cardinality({i \in DOMAIN world.ents : world.ents[i].cat = "player"}) = 1
    /\ world.handlers = CollisionPairs
    /\ OfOneLevel

\* A tick has run on a world that was loaded from the second level while a
\* "You dead" window was open.
C16_TickAfterReload ==
    /\ app = "running"
    /\ level_holder = "level2.txt"
    /\ tick_in_prompt
    /\ Len(world.ents) = Len(files["level2.txt"]) + 1
    /\ Players(world) # {}

(* ------------------------------------------------------------------ *)
(* Properties of the key handlers (under Spec)                        *)
(* ------------------------------------------------------------------ *)
\* The horizontal speeds the keys are bound to.
BoundSpeeds == {-500, -50, 50, 500}

\* C17: in every state, whatever the lifecycle, _move(dx, 0) leaves the state
\* as it was but for the velocity (dx, 0), _jump but for the velocity
\* (0, -150), and _duck leaves it as it was; and every step of the program
\* that changes the velocity sets it to one of these and leaves health, score,
\* position, death flag, world, level, camera offset, timers and windows
\* unchanged.
C17_KeysChangeOnlyVelocity ==
    /\ [](/\ \A dx \in BoundSpeeds :
               _move(Cur, dx, 0) = [Cur EXCEPT !.player.velocity = <<dx, 0>>]
          /\ _jump(Cur) = [Cur EXCEPT !.player.velocity = <<0, -150>>]
          /\ _duck(Cur) = Cur)
    /\ [][player'.velocity # player.velocity =>
            /\ player'.velocity \in {<<dx, 0>> : dx \in BoundSpeeds} \cup {<<0, -150>>}
            /\ player' = [player EXCEPT !.velocity = player'.velocity]
            /\ <<files, app, builders, world, level_holder, death_action,
                 win_width, view_offset, pending, death_popups, level_popups,
                 on_death_calls, reset_snap, tick_log>>' =
               <<files, app, builders, world, level_holder, death_action,
                 win_width, view_offset, pending, death_popups, level_popups,
                 on_death_calls, reset_snap, tick_log>>]_vars

\* A jump key was the last event, pressed while the player was dead and the
\* "You dead" window open.
C17_JumpWhileDead ==
    /\ app = "running"
    /\ player.health = 0
    /\ death_action
    /\ death_popups > 0
    /\ player.velocity = <<0, -150>>
    /\ ~tick_in_prompt

(* ------------------------------------------------------------------ *)
(* Properties of the camera across level loads (under Spec)           *)
(* ------------------------------------------------------------------ *)
\* The offset scroll sets in the current window and world with the player at x.
ScrolledAt(x) == scroll([Cur EXCEPT !.player.x = x]).view_offset

Max(a, b) == IF a > b THEN a ELSE b

\* C18 as stated: for every x, in the window of the first level and the world
\* of the level loaded last, the offset scroll sets has vertical component 0
\* and a horizontal component from (window width - world width) to 0.
C18_OffsetWithinWorld ==
    \A x \in ScrollPositions \cup {player.x} :
       /\ ScrolledAt(x)[2] = 0
       /\ win_width - world.width <= ScrolledAt(x)[1]
       /\ ScrolledAt(x)[1] <= 0

\* C18 (amended): the window width stays the one taken from the first level;
\* for every x the offset scroll sets has vertical component 0; in a world at
\* least as wide as the window its horizontal component lies from
\* (window width - world width) to 0; in a world narrower than the window it
\* is 0 for x <= window width / 2 and (window width - world width), a
\* positive number, for every other x.
C18_OffsetWithinWorldOrWindow ==
    /\ win_width = Min(MAX_WINDOW_WIDTH, LevelPixelWidth(files["level1.txt"]))
    /\ \A x \in ScrollPositions \cup {player.x} :
          LET o == ScrolledAt(x)
              slack == win_width - world.width
          IN /\ o[2] = 0
             /\ slack <= 0 => (slack <= o[1] /\ o[1] <= 0)
             /\ slack > 0 => o[1] = (IF x <= win_width \div 2 THEN 0 ELSE slack)
             /\ Min(0, slack) <= o[1] /\ o[1] <= Max(0, slack)

\* A level narrower than the window was loaded and a tick has scrolled the
\* view in it.
C18_ScrolledInNarrowWorld ==
    /\ app = "running"
    /\ level_holder = "level2.txt"
    /\ world.width < win_width
    /\ player.x = world.width
    /\ view_offset = <<0, 0>>
    /\ Len(tick_log) = 5

(* ------------------------------------------------------------------ *)
(* Properties of the timer chain (under Spec)                         *)
(* ------------------------------------------------------------------ *)
\* C19: between callbacks, from the end of the constructor until exit_game,
\* exactly one step callback is pending, whatever loads, resets, deaths,
\* restarts and keys came before; after exit_game none is, and every step of
\* the program before the exit leaves the count at one.
C19_OneStepPending ==
    /\ [](app = "running" => pending = 1)
    /\ [](app = "exited" => pending = 0)
    /\ [][app' = "running" => pending' = pending]_vars

\* The chain is running after a death, a reload made with the "You dead"
\* window still open, and a key press, a "Level select" window open beside.
C19_ChainAfterDeathAndReload ==
    /\ app = "running"
    /\ pending = 1
    /\ death_popups > 0
    /\ level_popups > 0
    /\ ~death_action
    /\ player.health = MaxHealth
    /\ player.velocity # <<0, 0>>

(* ------------------------------------------------------------------ *)
(* Properties of the death prompt (under Spec)                        *)
(* ------------------------------------------------------------------ *)
\* C20: at most one "You dead" window is open at any time; while one is open,
\* so that its Restart button can be pressed, the death flag is set and the
\* player is dead; no window stays open into a later life, a state with full
\* health and the flag cleared.
C20_OnePromptOnlyWhileDead ==
    /\ death_popups <= 1
    /\ death_popups > 0 => (death_action /\ player.health = 0)

====
